---- MODULE Spec2Model ----
(***************************************************************************)
(* Model of blacs/plugins/__init__.py: the Callback wrapper, the callback  *)
(* dispatcher get_callbacks(name) and the module-level plugin discovery    *)
(* loop.                                                                   *)
(*                                                                         *)
(*   Spec           the dispatcher, plugins returning integer priorities   *)
(*   SpecDefect     the dispatcher, plugins that may also return defective *)
(*                  values (a non-mapping, a non-integer priority)         *)
(*   SpecDiscovery  the discovery loop over os.listdir(PLUGINS_DIR)        *)
(*   SpecCallback   attribute access and call of a Callback                *)
(***************************************************************************)
EXTENDS Integers, Sequences, FiniteSets, TLC

VARIABLES
    \* ---- get_callbacks(name) ----
    plugins,        \* BLACS.plugins.values(): the plugin instances in iteration order
    name,           \* argument of the call in progress / last call
    pc,             \* "idle" | "loop" | "returned" | "raised"
    idx,            \* position of the for loop in plugins
    callbacks,      \* the accumulator list
    queried,        \* per visit of this call: what plugin.get_callbacks() did
    log,            \* logger.exception records of this call (plugin ids)
    result,         \* the list returned by the last call
    failedBefore,   \* plugins whose get_callbacks() raised in an earlier call
    \* ---- discovery ----
    listing,        \* os.listdir(PLUGINS_DIR)
    config,         \* exp_config: hasSection, items of 'BLACS/plugins'
    modules,        \* the module-level dict `modules` (its keys)
    pos,            \* position of the for loop in listing
    dpc,            \* "start" | "scan" | "done"
    run,            \* number of the process run
    startConfig,    \* items of the section when this run started
    firstConfig,    \* items of the section when the first run finished
    imports,        \* importlib.import_module calls of this run: name, outcome
    writes,         \* names of the exp_config.set calls since the first run began
    \* ---- Callback ----
    request,        \* the attribute accessed (Callback, instance) and the caller's call
    attr,           \* value of the attribute access
    invoked,        \* what the wrapped function received
    retval          \* what the call returned to the caller

dispatchVars  == <<plugins, name, pc, idx, callbacks, queried, log, result, failedBefore>>
discoveryVars == <<listing, config, modules, pos, dpc, run, startConfig, firstConfig,
                   imports, writes>>
callbackVars  == <<request, attr, invoked, retval>>
vars == <<dispatchVars, discoveryVars, callbackVars>>

-----------------------------------------------------------------------------
(* Bounds *)
MaxPlugins == 3
MaxListing == 3
MaxRuns == 2
MaxArgs == 2

-----------------------------------------------------------------------------
(* Python values *)

DEFAULT_PRIORITY == 10

PyNone == 0

\* Values a `priority` attribute can hold: an int, or (a defect) a str.
\* NoAttr marks an object that has no `priority` attribute.
PInt(n) == [ptype |-> "int", v |-> n]
PStr == [ptype |-> "str", v |-> 0]
NoAttr == [ptype |-> "absent", v |-> 0]

\* A plain function object.
Function(f) == [type |-> "function", func |-> f, priority |-> NoAttr, self |-> PyNone]

\* Callback.__init__(self, func, priority)
Callback(f, priority) == [type |-> "Callback", func |-> f, priority |-> priority, self |-> PyNone]

\* Callback(func): the priority parameter's default
CallbackDefault(f) == Callback(f, PInt(DEFAULT_PRIORITY))

\* callback(priority)(func): the decorator
callback(priority, f) == Callback(f, priority)

\* types.MethodType(cb, instance): a bound method whose __func__ is the
\* Callback cb and whose __self__ is instance.  Attribute lookups that the
\* method object does not define itself are forwarded to __func__, so the
\* record keeps cb's func and priority.
MethodType(cb, instance) == [cb EXCEPT !.type = "method", !.self = instance]

Callback__get__noBind(cb, instance) == cb

\* Callback.__get__(self, instance, class_)
Callback__get__(cb, instance) ==
    IF instance = PyNone THEN cb ELSE MethodType(cb, instance)

getattr_priority_zeroDefault(obj) ==
    IF obj.priority.ptype = "absent" THEN PInt(0) ELSE obj.priority

\* getattr(callback, 'priority', DEFAULT_PRIORITY)
getattr_priority(obj) ==
    IF obj.priority.ptype = "absent" THEN PInt(DEFAULT_PRIORITY) ELSE obj.priority

-----------------------------------------------------------------------------
(* list.sort(key=...) *)

\* k1 < k2 for two keys of the same type (str keys: there is one str value)
KeyLess(k1, k2) == k1.ptype = "int" /\ k2.ptype = "int" /\ k1.v < k2.v

\* Python 2 orders any int before any str
KeyLessPy2(k1, k2) ==
    \/ KeyLess(k1, k2)
    \/ k1.ptype = "int" /\ k2.ptype = "str"

\* Keys of both types are present: Python 3 raises TypeError on comparing them.
MixedKeys(seq) ==
    \E i, j \in 1..Len(seq) :
        getattr_priority(seq[i]).ptype # getattr_priority(seq[j]).ptype

InsertSorted_unstable(x, sorted) ==
    LET before == {i \in 1..Len(sorted) :
                     KeyLessPy2(getattr_priority(sorted[i]), getattr_priority(x))}
        n == Cardinality(before)
    IN  SubSeq(sorted, 1, n) \o <<x>> \o SubSeq(sorted, n + 1, Len(sorted))

\* x placed after every element that is not greater than it: the sort is stable
InsertSorted(x, sorted) ==
    LET before == {i \in 1..Len(sorted) :
                     ~KeyLessPy2(getattr_priority(x), getattr_priority(sorted[i]))}
        n == Cardinality(before)
    IN  SubSeq(sorted, 1, n) \o <<x>> \o SubSeq(sorted, n + 1, Len(sorted))

RECURSIVE SortByPriority(_)
SortByPriority(seq) ==
    IF seq = <<>> THEN <<>>
    ELSE InsertSorted(seq[Len(seq)], SortByPriority(SubSeq(seq, 1, Len(seq) - 1)))

\* What callbacks.sort(key=...) can do: sort in place, or raise TypeError on
\* Python 3 when the keys are of both types (Python 2 orders them).
SortOutcomes(seq) ==
    {[status |-> "returned", list |-> SortByPriority(seq)]}
      \cup (IF MixedKeys(seq) THEN {[status |-> "raised", list |-> <<>>]} ELSE {})

-----------------------------------------------------------------------------
(* What a plugin's get_callbacks() can do *)

Events == {"save", "load"}

IntPriorities == {DEFAULT_PRIORITY - 5, DEFAULT_PRIORITY, DEFAULT_PRIORITY + 5}

NoEntry == [type |-> "none", func |-> PyNone, priority |-> NoAttr, self |-> PyNone]

NoMap == [e \in {} |-> NoEntry]

\* Values a plugin p puts in its mapping: a plain callable, a Callback
\* object, or the bound form of a Callback that is an attribute of its class
\* (self.method, here one decorated with a priority below the default).
\* The wrapped function is named after its plugin.
CallbackValues(p) ==
    {Function(p), CallbackDefault(p)}
      \cup {callback(PInt(n), p) : n \in IntPriorities}
      \cup {Callback__get__(callback(PInt(DEFAULT_PRIORITY - 5), p), p)}

\* A defective value: a Callback whose priority is a str
DefectValues(p) == {Callback(p, PStr)}

Mappings(values) == UNION {[D -> values] : D \in SUBSET Events}

\* BasePlugin.get_callbacks() and its overrides: raise, return None, return
\* a mapping; a defective plugin may return something that is no container.
Returns(p, defects) ==
    {[kind |-> "raise", map |-> NoMap], [kind |-> "None", map |-> NoMap]}
      \cup {[kind |-> "mapping", map |-> m] : m \in Mappings(CallbackValues(p))}
      \cup (IF defects
            THEN {[kind |-> "notmapping", map |-> NoMap]}
                   \cup {[kind |-> "mapping", map |-> m] :
                           m \in Mappings(CallbackValues(p) \cup DefectValues(p))}
            ELSE {})

-----------------------------------------------------------------------------
(* get_callbacks(name) *)

Range(seq) == {seq[i] : i \in 1..Len(seq)}

PluginsToVisit_skipFailed == SelectSeq(plugins, LAMBDA p : p \notin failedBefore)

\* for plugin in BLACS.plugins.values()
PluginsToVisit == plugins

\* The try body raises: plugin.get_callbacks() raises, or `name in
\* plugin_callbacks` raises TypeError because the value is no container.
TryBodyRaises(ret) == ret.kind \in {"raise", "notmapping"}

Caught_nothing(ret) == FALSE

\* except Exception as e
Caught(ret) == TryBodyRaises(ret)

Collect_anyKey(acc, ret, nm) ==
    IF ret.kind = "None" \/ DOMAIN ret.map = {} THEN acc
    ELSE IF nm \in DOMAIN ret.map THEN Append(acc, ret.map[nm])
    ELSE Append(acc, ret.map[CHOOSE k \in DOMAIN ret.map : TRUE])

\* The try body when it does not raise
Collect(acc, ret, nm) ==
    IF ret.kind # "None"
    THEN IF nm \in DOMAIN ret.map THEN Append(acc, ret.map[nm]) ELSE acc
    ELSE acc

\* Record of one visit: what the plugin did, and its entry for the name.
Outcome(p, ret, nm) ==
    LET has == ret.kind = "mapping" /\ nm \in DOMAIN ret.map
    IN  [plugin |-> p, kind |-> ret.kind, has |-> has,
         entry |-> IF has THEN ret.map[nm] ELSE NoEntry]

\* callbacks.sort(key=...); return callbacks
SortAndReturn(acc) ==
    \E out \in SortOutcomes(acc) :
        /\ pc' = out.status
        /\ result' = out.list
        /\ callbacks' = IF out.status = "returned" THEN out.list ELSE acc

\* Entry of get_callbacks(name), up to the for loop; with no plugin
\* registered the loop body never runs and the call returns at once.
Call(nm) ==
    /\ pc # "loop"
    /\ UNCHANGED <<plugins, discoveryVars, callbackVars>>
    /\ name' = nm
    /\ queried' = <<>>
    /\ log' = <<>>
    /\ idx' = 1
    /\ failedBefore' = failedBefore \cup Range(log)
    /\ IF PluginsToVisit' = <<>>
       THEN SortAndReturn(<<>>)
       ELSE pc' = "loop" /\ callbacks' = <<>> /\ result' = <<>>

\* One iteration of the for loop; the last one goes on to sort and return.
Visit(defects) ==
    /\ pc = "loop"
    /\ LET p == PluginsToVisit[idx] IN
       \E ret \in Returns(p, defects) :
          LET raises == TryBodyRaises(ret)
              acc == IF raises THEN callbacks ELSE Collect(callbacks, ret, name)
          IN  /\ queried' = Append(queried, Outcome(p, ret, name))
              /\ IF raises /\ ~Caught(ret)
                 THEN /\ pc' = "raised"
                      /\ UNCHANGED <<log, callbacks, result, idx>>
                 ELSE /\ log' = IF raises THEN Append(log, p) ELSE log
                      /\ idx' = idx + 1
                      /\ IF idx = Len(PluginsToVisit)
                         THEN SortAndReturn(acc)
                         ELSE pc' = "loop" /\ callbacks' = acc /\ UNCHANGED result
    /\ UNCHANGED <<plugins, name, failedBefore, discoveryVars, callbackVars>>

\* BLACS.plugins holds up to MaxPlugins plugin instances; an instance is
\* named by its place in the iteration order of the mapping's values.
DispatchInit ==
    /\ plugins \in {[i \in 1..n |-> i] : n \in 0..MaxPlugins}
    /\ name = ""
    /\ pc = "idle"
    /\ idx = 1
    /\ callbacks = <<>>
    /\ queried = <<>>
    /\ log = <<>>
    /\ result = <<>>
    /\ failedBefore = {}

DispatchIdle ==
    /\ plugins = <<>>
    /\ name = ""
    /\ pc = "idle"
    /\ idx = 1
    /\ callbacks = <<>>
    /\ queried = <<>>
    /\ log = <<>>
    /\ result = <<>>
    /\ failedBefore = {}

DiscoveryIdle ==
    /\ listing = <<>>
    /\ config = [hasSection |-> FALSE, items |-> NoMap]
    /\ modules = {}
    /\ pos = 1
    /\ dpc = "start"
    /\ run = 1
    /\ startConfig = NoMap
    /\ firstConfig = NoMap
    /\ imports = <<>>
    /\ writes = <<>>

NoRequest ==
    [cb |-> NoEntry, instance |-> PyNone, args |-> <<>>, kwargs |-> <<>>, returns |-> PyNone]

NotInvoked == [called |-> FALSE, func |-> PyNone, args |-> <<>>, kwargs |-> <<>>]

CallbackIdle ==
    /\ request = NoRequest
    /\ attr = NoEntry
    /\ invoked = NotInvoked
    /\ retval = PyNone

Init == DispatchInit /\ DiscoveryIdle /\ CallbackIdle

Next ==
    \/ \E nm \in Events : Call(nm)
    \/ Visit(FALSE)

Spec == Init /\ [][Next]_vars

NextDefect ==
    \/ \E nm \in Events : Call(nm)
    \/ Visit(TRUE)

SpecDefect == Init /\ [][NextDefect]_vars

-----------------------------------------------------------------------------
(* Properties of get_callbacks(name) *)

\* The priority an entry counts as: its priority attribute, or 10 without one
ClaimedPriority(obj) ==
    IF obj.priority.ptype = "absent" THEN 10 ELSE obj.priority.v

IntKeyed(obj) == obj.priority.ptype \in {"absent", "int"}

\* The visits of this call whose mapping held the name
Contributed == SelectSeq(queried, LAMBDA q : q.has)

\* list holds the entries of the given visits, each once, ordered by
\* priority and, at equal priority, by position of the visit
OrderedEntriesOf(list, visits) ==
    /\ Len(list) = Len(visits)
    /\ \A k \in 1..Len(visits) : \E i \in 1..Len(list) : list[i] = visits[k].entry
    /\ \A i, j \in 1..Len(list) :
          i < j =>
             \/ ClaimedPriority(list[i]) < ClaimedPriority(list[j])
             \/ /\ ClaimedPriority(list[i]) = ClaimedPriority(list[j])
                /\ list[i].func < list[j].func

\* C1: the list returned by get_callbacks(event) is ordered by non-decreasing
\* priority, a plain callable counting as priority 10; when the priorities
\* are all distinct the order is strictly ascending.
C1_SortedByPriority ==
    pc = "returned" =>
       /\ \A i, j \in 1..Len(result) :
             i < j => ClaimedPriority(result[i]) <= ClaimedPriority(result[j])
       /\ (\A i, j \in 1..Len(result) :
              i # j => ClaimedPriority(result[i]) # ClaimedPriority(result[j]))
            => \A i, j \in 1..Len(result) :
                  i < j => ClaimedPriority(result[i]) < ClaimedPriority(result[j])

\* Three plugins contributed 15, a plain callable and 5 in that order, and
\* the call returned them as 5, plain, 15.
C1_Witness ==
    /\ pc = "returned"
    /\ Len(queried) = 3 /\ Len(result) = 3
    /\ queried[1].has /\ queried[1].entry.priority = PInt(15)
    /\ queried[2].has /\ queried[2].entry.type = "function"
    /\ queried[3].has /\ queried[3].entry.priority = PInt(5)
    /\ result = <<queried[3].entry, queried[2].entry, queried[1].entry>>

\* C2: two returned entries of equal priority (a plain callable counting as
\* 10) appear in the order in which their plugins were visited.
C2_StableOnTies ==
    pc = "returned" =>
       \A i, j \in 1..Len(result) :
          (i < j /\ ClaimedPriority(result[i]) = ClaimedPriority(result[j]))
             => result[i].func < result[j].func

\* Plugin 1 gave a Callback of priority 10, plugin 2 one of priority 5 and
\* plugin 3 a plain callable: the result is 2, 1, 3.
C2_Witness ==
    /\ pc = "returned"
    /\ Len(result) = 3
    /\ result[1] = Callback(2, PInt(5))
    /\ result[2] = Callback(1, PInt(10))
    /\ result[3] = Function(3)

\* C3: whichever plugins' get_callbacks() raise, get_callbacks(event) does
\* not raise: it logs each failure and returns the correctly ordered
\* callbacks of the plugins that did not raise.
C3_RaisingPluginsSkipped ==
    /\ pc # "raised"
    /\ pc = "returned" =>
          /\ log = [k \in 1..Len(SelectSeq(queried, LAMBDA q : q.kind = "raise"))
                      |-> SelectSeq(queried, LAMBDA q : q.kind = "raise")[k].plugin]
          /\ OrderedEntriesOf(result, SelectSeq(queried, LAMBDA q : q.kind # "raise" /\ q.has))

\* The second of three plugins raised; the entries of the first (priority
\* 15) and the third (priority 5) came back, the third first.
C3_Witness ==
    /\ pc = "returned"
    /\ Len(queried) = 3
    /\ queried[1].has /\ queried[1].entry.priority = PInt(15)
    /\ queried[2].kind = "raise"
    /\ queried[3].has /\ queried[3].entry.priority = PInt(5)
    /\ log = <<2>>
    /\ result = <<queried[3].entry, queried[1].entry>>

\* C4: the returned list holds exactly one entry, the mapping's value for
\* the event, for each plugin whose get_callbacks() returned a mapping
\* containing the event, and nothing else; with no such plugin (no mapping
\* contains the event, plugins return None) the call returns the empty list
\* and raises nothing.
C4_ExactlyTheContributedEntries ==
    /\ pc = "returned" =>
          /\ Len(result) = Len(Contributed)
          /\ \A k \in 1..Len(Contributed) :
                Cardinality({i \in 1..Len(result) : result[i] = Contributed[k].entry}) = 1
          /\ \A i \in 1..Len(result) :
                \E k \in 1..Len(Contributed) : result[i] = Contributed[k].entry
    /\ (pc \in {"returned", "raised"} /\ Contributed = <<>>)
          => (pc = "returned" /\ result = <<>>)

\* One plugin returned None, one a mapping without the event, one a mapping
\* with it: the result is that one entry.
C4_Witness ==
    /\ pc = "returned"
    /\ Len(queried) = 3
    /\ queried[1].kind = "None"
    /\ queried[2].kind = "mapping" /\ ~queried[2].has
    /\ queried[3].has
    /\ result = <<queried[3].entry>>

\* With no plugin contributing, the call returned the empty list.
C4_WitnessEmpty ==
    /\ pc = "returned"
    /\ Len(queried) = 2
    /\ queried[1].kind = "None"
    /\ queried[2].kind = "mapping"
    /\ result = <<>>

\* C10: every call queries every plugin of the host's plugins mapping exactly
\* once, whatever earlier calls did, and a plugin that raised in an earlier
\* call and returns a mapping with the event in this call has its entry in
\* the returned list.
C10_FailureLastsOneCall ==
    /\ pc \in {"returned", "raised"} =>
          [k \in 1..Len(queried) |-> queried[k].plugin] = plugins
    /\ pc = "returned" =>
          \A k \in 1..Len(queried) :
             (queried[k].plugin \in failedBefore /\ queried[k].has)
                => queried[k].entry \in Range(result)

\* Plugin 2 raised in an earlier call; in this call it is queried again and
\* its entry is returned.
C10_Witness ==
    /\ pc = "returned"
    /\ Len(queried) = 3
    /\ 2 \in failedBefore
    /\ queried[2].plugin = 2 /\ queried[2].has
    /\ queried[2].entry \in Range(result)

\* C9: a defect in the entry one plugin supplies does not propagate out of
\* get_callbacks(event): the call returns the other plugins' callbacks in
\* priority order.
C9_EntryDefectContained ==
    /\ pc # "raised"
    /\ pc = "returned" =>
          OrderedEntriesOf(SelectSeq(result, IntKeyed),
                           SelectSeq(Contributed, LAMBDA q : IntKeyed(q.entry)))

-----------------------------------------------------------------------------
(* Plugin discovery: the module-level code after get_callbacks *)

default_plugins == <<"connection_table", "general", "theme">>

\* What os.listdir(PLUGINS_DIR) can hold: plugin directories, the
\* interpreter's cache directory and plain files.
DirEntries ==
    {[name |-> "connection_table", isdir |-> TRUE],
     [name |-> "theme", isdir |-> TRUE],
     [name |-> "experimental", isdir |-> TRUE],
     [name |-> "__pycache__", isdir |-> TRUE],
     [name |-> "__init__.py", isdir |-> FALSE]}

Listings ==
    UNION {{l \in [1..n -> DirEntries] : \A i, j \in 1..n : i # j => l[i] # l[j]} :
             n \in 0..MaxListing}

SectionKeys == {"connection_table", "theme", "experimental"}

\* The 'BLACS/plugins' section as the store holds it: boolean-as-string values
SectionItems == UNION {[K -> {"True", "False"}] : K \in SUBSET SectionKeys}

\* str(b) of a bool
PyStr(b) == IF b THEN "True" ELSE "False"

\* exp_config.getboolean('BLACS/plugins', module_name)
getboolean(cfg, key) == cfg.items[key] = "True"

\* exp_config.set('BLACS/plugins', key, value)
ConfigSet(cfg, key, value) ==
    [cfg EXCEPT !.items = [k \in DOMAIN cfg.items \cup {key} |->
                              IF k = key THEN value ELSE cfg.items[k]]]

\* if not exp_config.has_section(...): exp_config.add_section(...)
EnsureSection(cfg) == [cfg EXCEPT !.hasSection = TRUE]

\* os.path.isdir(...) and module_name != '__pycache__'
IsCandidate(entry) == entry.isdir /\ entry.name # "__pycache__"

IsNewPlugin_always(cfg, key) == TRUE

\* not module_name in [name for name, val in exp_config.items('BLACS/plugins')]
IsNewPlugin(cfg, key) == key \notin DOMAIN cfg.items

IsDefaultPlugin_all(key) == TRUE

\* module_name in default_plugins
IsDefaultPlugin(key) == key \in Range(default_plugins)

ModulesAfterImport_always(mods, key, outcome) == mods \cup {key}

\* try: importlib.import_module(...) / except Exception: log / else: modules[module_name] = module
ModulesAfterImport(mods, key, outcome) ==
    IF outcome = "ok" THEN mods \cup {key} ELSE mods

\* The loop has run to its end
EndOfScan(p) ==
    /\ dpc' = IF p > Len(listing) THEN "done" ELSE "scan"
    /\ firstConfig' = IF p > Len(listing) /\ run = 1 THEN config'.items ELSE firstConfig

\* exp_config = LabConfig(); the section is added when missing; modules = {}
Start ==
    /\ dpc = "start"
    /\ config' = EnsureSection(config)
    /\ modules' = {}
    /\ pos' = 1
    /\ EndOfScan(1)
    /\ UNCHANGED <<listing, run, startConfig, imports, writes, dispatchVars, callbackVars>>

\* One iteration of `for module_name in os.listdir(PLUGINS_DIR)`
Scan ==
    /\ dpc = "scan"
    /\ LET entry == listing[pos]
           key == entry.name
           new == IsCandidate(entry) /\ IsNewPlugin(config, key)
           cfg == IF new THEN ConfigSet(config, key, PyStr(IsDefaultPlugin(key)))
                  ELSE config
       IN  /\ config' = cfg
           /\ writes' = IF new THEN Append(writes, key) ELSE writes
           /\ IF IsCandidate(entry) /\ getboolean(cfg, key)
              THEN \E outcome \in {"ok", "raised"} :
                      /\ imports' = Append(imports, [name |-> key, outcome |-> outcome])
                      /\ modules' = ModulesAfterImport(modules, key, outcome)
              ELSE UNCHANGED <<imports, modules>>
    /\ pos' = pos + 1
    /\ EndOfScan(pos + 1)
    /\ UNCHANGED <<listing, run, startConfig, dispatchVars, callbackVars>>

\* The host process is started again: the module-level code runs again on
\* the store as the last run left it.
Restart ==
    /\ dpc = "done"
    /\ run < MaxRuns
    /\ run' = run + 1
    /\ dpc' = "start"
    /\ pos' = 1
    /\ modules' = {}
    /\ imports' = <<>>
    /\ startConfig' = config.items
    /\ UNCHANGED <<listing, config, firstConfig, writes, dispatchVars, callbackVars>>

DiscoveryInit ==
    /\ listing \in Listings
    /\ config \in {[hasSection |-> FALSE, items |-> NoMap]}
                    \cup {[hasSection |-> TRUE, items |-> it] : it \in SectionItems}
    /\ modules = {}
    /\ pos = 1
    /\ dpc = "start"
    /\ run = 1
    /\ startConfig = config.items
    /\ firstConfig = NoMap
    /\ imports = <<>>
    /\ writes = <<>>

InitDiscovery == DispatchIdle /\ DiscoveryInit /\ CallbackIdle

NextDiscovery == Start \/ Scan \/ Restart

SpecDiscovery == InitDiscovery /\ [][NextDiscovery]_vars

-----------------------------------------------------------------------------
(* Properties of discovery *)

\* A directory entry that names a candidate plugin module
CandidateEntry(entry) == entry.isdir /\ entry.name # "__pycache__"

\* The names the default-enabled set holds
InDefaultEnabledSet(key) == key \in {"connection_table", "general", "theme"}

\* Positions of the listing the loop of this run has been through
Scanned == IF dpc = "start" THEN {} ELSE 1..(pos - 1)

ImportAttempts(key) == {i \in 1..Len(imports) : imports[i].name = key}

\* C5: a candidate that was no key of the section when the run began is
\* written with "True" if it is in the default-enabled set and "False"
\* otherwise, before its enabled check: its import is attempted in the same
\* run exactly when it is in the default-enabled set.
C5_NewCandidateGetsDefault ==
    \A k \in Scanned :
       (CandidateEntry(listing[k]) /\ listing[k].name \notin DOMAIN startConfig) =>
          /\ listing[k].name \in DOMAIN config.items
          /\ config.items[listing[k].name] =
                (IF InDefaultEnabledSet(listing[k].name) THEN "True" ELSE "False")
          /\ (ImportAttempts(listing[k].name) # {}) <=> InDefaultEnabledSet(listing[k].name)

\* A first run over theme and experimental, both new: theme was written
\* True and its import attempted, experimental was written False and left alone.
C5_Witness ==
    /\ dpc = "done" /\ run = 1
    /\ startConfig = NoMap
    /\ \E a, b \in 1..Len(listing) :
          listing[a].name = "theme" /\ listing[b].name = "experimental"
    /\ "theme" \in DOMAIN config.items /\ config.items["theme"] = "True"
    /\ "experimental" \in DOMAIN config.items /\ config.items["experimental"] = "False"
    /\ ImportAttempts("theme") # {}
    /\ ImportAttempts("experimental") = {}

\* C6: discovery never changes the value of a key the section already
\* holds, writes each module's default at most once, and a further run on
\* the same candidates leaves the store as the first run left it.
C6_ExistingKeysKept ==
    /\ \A key \in DOMAIN startConfig :
          key \in DOMAIN config.items /\ config.items[key] = startConfig[key]
    /\ \A key \in Range(writes) :
          Cardinality({i \in 1..Len(writes) : writes[i] = key}) = 1
    /\ run > 1 => config.items = firstConfig

\* A second run has finished over theme, experimental and connection_table;
\* the user's False for theme and True for experimental are still there and
\* the only write ever made is connection_table's default.
C6_Witness ==
    /\ dpc = "done" /\ run = 2
    /\ Len(listing) = 3
    /\ \A k \in 1..3 : listing[k].name \in {"theme", "experimental", "connection_table"}
    /\ DOMAIN config.items = {"theme", "experimental", "connection_table"}
    /\ config.items["theme"] = "False"
    /\ config.items["experimental"] = "True"
    /\ writes = <<"connection_table">>

\* C7: when discovery has finished, the keys of modules are the candidates
\* whose flag is true and whose import succeeded; only enabled candidates
\* are imported, each once, and a failed import leaves out that module alone.
C7_ModulesAreEnabledAndImported ==
    dpc = "done" =>
       LET cands == {listing[k].name :
                       k \in {i \in 1..Len(listing) : CandidateEntry(listing[i])}}
           enabled == {c \in cands : config.items[c] = "True"}
       IN  /\ modules = {c \in enabled :
                           \E i \in 1..Len(imports) :
                              imports[i] = [name |-> c, outcome |-> "ok"]}
           /\ \A i \in 1..Len(imports) : imports[i].name \in enabled
           /\ \A c \in enabled : Cardinality(ImportAttempts(c)) = 1

\* Three enabled candidates, the second import raised: the first and the
\* third are in modules.
C7_Witness ==
    /\ dpc = "done"
    /\ Len(imports) = 3
    /\ imports[1].outcome = "ok"
    /\ imports[2].outcome = "raised"
    /\ imports[3].outcome = "ok"
    /\ modules = {imports[1].name, imports[3].name}

\* A disabled candidate was scanned and not imported.
C7_WitnessDisabled ==
    /\ dpc = "done"
    /\ Len(listing) = 2
    /\ listing[1].name = "theme" /\ config.items["theme"] = "False"
    /\ listing[2].name = "experimental" /\ config.items["experimental"] = "True"
    /\ modules = {"experimental"}

-----------------------------------------------------------------------------
(* Callback as a class attribute of a plugin *)

\* The functions a plugin class wraps, and its instances
WrappedFuncs == {1, 2}
Instances == {1, 2}

CallbackObjects == {Callback(f, PInt(n)) : f \in WrappedFuncs, n \in IntPriorities}

ArgLists == UNION {[1..n -> {1, 2}] : n \in 0..MaxArgs}

KwargDicts == UNION {[K -> {1, 2}] : K \in SUBSET {"x"}}

Callback__call__dropReturn(cb, args, kwargs, returns) ==
    [invoked |-> [called |-> TRUE, func |-> cb.func, args |-> args, kwargs |-> kwargs],
     retval |-> PyNone]

\* Callback.__call__(self, *args, **kwargs): return self.func(*args, **kwargs)
\* `returns` is what the wrapped function returns for these arguments.
Callback__call__(cb, args, kwargs, returns) ==
    [invoked |-> [called |-> TRUE, func |-> cb.func, args |-> args, kwargs |-> kwargs],
     retval |-> returns]

\* Calling obj(*args, **kwargs).  A bound method calls its __func__, the
\* Callback, with __self__ put before the arguments.
PyCall(obj, args, kwargs, returns) ==
    IF obj.type = "method"
    THEN Callback__call__(Callback(obj.func, obj.priority), <<obj.self>> \o args,
                          kwargs, returns)
    ELSE Callback__call__(obj, args, kwargs, returns)

\* plugin.attr (instance a plugin) or Plugin.attr (instance None), attr a
\* Callback in the class: the descriptor's __get__ yields the value.
GetAttr(cb, instance) ==
    /\ request' = [NoRequest EXCEPT !.cb = cb, !.instance = instance]
    /\ attr' = Callback__get__(cb, instance)
    /\ invoked' = NotInvoked
    /\ retval' = PyNone
    /\ UNCHANGED <<dispatchVars, discoveryVars>>

\* The caller calls the value it got with its arguments.
CallAttr(args, kwargs, returns) ==
    /\ attr # NoEntry
    /\ ~invoked.called
    /\ request' = [request EXCEPT !.args = args, !.kwargs = kwargs, !.returns = returns]
    /\ LET r == PyCall(attr, args, kwargs, returns)
       IN  invoked' = r.invoked /\ retval' = r.retval
    /\ UNCHANGED <<attr, dispatchVars, discoveryVars>>

InitCallback == DispatchIdle /\ DiscoveryIdle /\ CallbackIdle

NextCallback ==
    \/ \E cb \in CallbackObjects, instance \in Instances \cup {PyNone} : GetAttr(cb, instance)
    \/ \E args \in ArgLists, kwargs \in KwargDicts, returns \in {1, 2} :
          CallAttr(args, kwargs, returns)

SpecCallback == InitCallback /\ [][NextCallback]_vars

\* C8: a Callback that is a class attribute, called through an instance,
\* invokes the wrapped function with the instance first and then the
\* caller's arguments, and returns what the function returns; accessed
\* through the class it is the Callback itself; the bound form has the
\* Callback's priority.
C8_BoundCall ==
    /\ (attr # NoEntry /\ request.instance = PyNone) => attr = request.cb
    /\ (attr # NoEntry /\ request.instance # PyNone) =>
          /\ attr.priority.ptype # "absent"
          /\ attr.priority = request.cb.priority
    /\ (invoked.called /\ request.instance # PyNone) =>
          /\ invoked.func = request.cb.func
          /\ invoked.args = <<request.instance>> \o request.args
          /\ invoked.kwargs = request.kwargs
          /\ retval = request.returns

\* The Callback of function 2 with priority 5, called through instance 1
\* with (2, 1) and x=2: the function got (1, 2, 1), x=2 and its 2 came back.
C8_Witness ==
    /\ request.cb = Callback(2, PInt(5))
    /\ request.instance = 1
    /\ invoked.called
    /\ invoked.func = 2
    /\ invoked.args = <<1, 2, 1>>
    /\ invoked.kwargs = [k \in {"x"} |-> 2]
    /\ retval = 2

\* Accessed through the class, the attribute is the Callback object.
C8_WitnessClass ==
    /\ request.cb = Callback(1, PInt(15))
    /\ request.instance = PyNone
    /\ attr = Callback(1, PInt(15))

====
